---- MODULE Spec2Model ----
(***************************************************************************)
(* Model of programs/token-metadata/src/lib.rs: the `initialize` and       *)
(* `update_field` instruction handlers of the token-metadata program, the *)
(* TLV account image they write, and the lamport accounting around them.  *)
(* Account data is kept as bytes; records are packed and unpacked with    *)
(* the borsh layout of TokenMetadata inside one TLV entry.                 *)
(***************************************************************************)
EXTENDS Integers, Sequences, FiniteSets, TLC

(***************************************************************************)
(* Bounds of the exploration.                                              *)
(***************************************************************************)
\* number of third-party credits to the metadata address in one behaviour
MaxCredits == 1
\* width in bits of the words the lamport difference is explored over
WordBits == 4

(***************************************************************************)
(* Program and host constants.                                             *)
(***************************************************************************)
\* bytes of a Pubkey (update_authority, mint)
PUBKEY_BYTES == 32
\* bytes of the ArrayDiscriminator that starts a TLV entry
DISCRIMINATOR_LEN == 8
\* bytes of the TLV Length (little-endian u32) and of a borsh length prefix
LENGTH_LEN == 4
\* Rent: bytes of account overhead charged on top of the data length
ACCOUNT_STORAGE_OVERHEAD == 128
\* Rent: lamports per byte-year times the exemption threshold (3480 * 2)
LAMPORTS_PER_BYTE == 6960
\* width of isize/u64 in the lamport difference; 64 on the target, modelled
\* with the widest power of two that keeps the arithmetic within 32-bit integers
ISIZE_BITS == 30

\* TokenMetadata::SPL_DISCRIMINATOR
SPL_DISCRIMINATOR == <<112, 132, 90, 90, 11, 88, 157, 87>>

(***************************************************************************)
(* Input domains.                                                          *)
(***************************************************************************)
Mints == {1}
Payers == {1}
\* identities that can be passed as update authority / can sign; 0 is the
\* all-zero key (Pubkey::default())
Identities == {0, 1, 2}
\* identities an initialize may name as update authority
InitAuthorities == {0, 1}
\* strings as byte sequences
Strings == {<<>>, <<97>>}
KeyStrings == {<<107>>, <<>>}
\* lamports a third party may send to a metadata address
CreditAmounts == {5000}

\* the Pubkey of identity n: 32 bytes
Pubkey(n) == [i \in 1..PUBKEY_BYTES |-> IF i = 1 THEN n ELSE 0]
ZeroPubkey == Pubkey(0)
MintKey(m) == [i \in 1..PUBKEY_BYTES |-> IF i = 2 THEN m ELSE 0]

Zeros(n) == [i \in 1..n |-> 0]

(***************************************************************************)
(* Little-endian u32 and borsh encoding of TokenMetadata.                 *)
(***************************************************************************)
LE32(n) == <<n % 256, (n \div 256) % 256, (n \div 65536) % 256, (n \div 16777216) % 256>>

FromLE32(b) == b[1] + 256 * b[2] + 65536 * b[3] + 16777216 * b[4]

BorshString(s) == LE32(Len(s)) \o s

RECURSIVE BorshPairs(_)
BorshPairs(ps) ==
    IF ps = <<>> THEN <<>>
    ELSE BorshString(Head(ps)[1]) \o BorshString(Head(ps)[2]) \o BorshPairs(Tail(ps))

\* borsh::to_vec(&TokenMetadata): fields in declaration order
try_to_vec(tm) ==
    tm.update_authority \o tm.mint
        \o BorshString(tm.name) \o BorshString(tm.symbol) \o BorshString(tm.uri)
        \o LE32(Len(tm.additional_metadata)) \o BorshPairs(tm.additional_metadata)

get_instance_packed_len(tm) == Len(try_to_vec(tm))

\* TlvStateBorrowed::get_base_len()
get_base_len == DISCRIMINATOR_LEN + LENGTH_LEN

tlv_size_of(tm) == get_base_len + get_instance_packed_len(tm)

\* Rent::minimum_balance
minimum_balance(size) == (ACCOUNT_STORAGE_OVERHEAD + size) * LAMPORTS_PER_BYTE

(***************************************************************************)
(* Decoding.                                                               *)
(***************************************************************************)
Fail == [ok |-> FALSE, val |-> <<>>, next |-> 0]

\* a borsh string at 1-based position pos of bytes b
ReadString(b, pos) ==
    IF pos + LENGTH_LEN - 1 > Len(b) THEN Fail
    ELSE LET n == FromLE32(SubSeq(b, pos, pos + LENGTH_LEN - 1))
             s == pos + LENGTH_LEN
         IN IF s + n - 1 > Len(b) THEN Fail
            ELSE [ok |-> TRUE, val |-> SubSeq(b, s, s + n - 1), next |-> s + n]

RECURSIVE ReadPairs(_, _, _)
ReadPairs(b, pos, count) ==
    IF count = 0 THEN [ok |-> TRUE, val |-> <<>>, next |-> pos]
    ELSE LET k == ReadString(b, pos)
         IN IF ~k.ok THEN Fail
            ELSE LET v == ReadString(b, k.next)
                 IN IF ~v.ok THEN Fail
                    ELSE LET rest == ReadPairs(b, v.next, count - 1)
                         IN IF ~rest.ok THEN Fail
                            ELSE [ok |-> TRUE,
                                  val |-> <<<<k.val, v.val>>>> \o rest.val,
                                  next |-> rest.next]

NoMetadata ==
    [update_authority |-> <<>>, mint |-> <<>>, name |-> <<>>, symbol |-> <<>>,
     uri |-> <<>>, additional_metadata |-> <<>>]

\* TokenMetadata::try_from_slice: every byte must be consumed
try_from_slice(b) ==
    IF Len(b) < 2 * PUBKEY_BYTES THEN [ok |-> FALSE, val |-> NoMetadata]
    ELSE LET name == ReadString(b, 2 * PUBKEY_BYTES + 1)
             symbol == IF name.ok THEN ReadString(b, name.next) ELSE Fail
             uri == IF symbol.ok THEN ReadString(b, symbol.next) ELSE Fail
             cnt == IF uri.ok /\ uri.next + LENGTH_LEN - 1 <= Len(b)
                    THEN [ok |-> TRUE,
                          val |-> FromLE32(SubSeq(b, uri.next, uri.next + LENGTH_LEN - 1)),
                          next |-> uri.next + LENGTH_LEN]
                    ELSE Fail
             pairs == IF cnt.ok THEN ReadPairs(b, cnt.next, cnt.val) ELSE Fail
         IN IF pairs.ok /\ pairs.next = Len(b) + 1
            THEN [ok |-> TRUE,
                  val |-> [update_authority |-> SubSeq(b, 1, PUBKEY_BYTES),
                           mint |-> SubSeq(b, PUBKEY_BYTES + 1, 2 * PUBKEY_BYTES),
                           name |-> name.val, symbol |-> symbol.val, uri |-> uri.val,
                           additional_metadata |-> pairs.val]]
            ELSE [ok |-> FALSE, val |-> NoMetadata]

\* TlvStateBorrowed::unpack + get_first_variable_len_value::<TokenMetadata>
\* on an account image holding the metadata entry first
get_first_variable_len_value(data) ==
    IF Len(data) < get_base_len
           \/ SubSeq(data, 1, DISCRIMINATOR_LEN) # SPL_DISCRIMINATOR
    THEN [ok |-> FALSE, val |-> NoMetadata]
    ELSE LET length == FromLE32(SubSeq(data, DISCRIMINATOR_LEN + 1, get_base_len))
         IN IF get_base_len + length > Len(data)
            THEN [ok |-> FALSE, val |-> NoMetadata]
            ELSE try_from_slice(SubSeq(data, get_base_len + 1, get_base_len + length))

(***************************************************************************)
(* Optional keys.  Option<T> is a sequence of length 0 (None) or 1 (Some).*)
(***************************************************************************)
None == <<>>
Some(x) == <<x>>

\* OptionalNonZeroPubkey::try_from(Option<Pubkey>): None becomes the zero
\* key, Some(zero key) is rejected
OptionalNonZeroPubkey_try_from(opt) ==
    IF opt = None THEN [ok |-> TRUE, val |-> ZeroPubkey]
    ELSE IF opt[1] = ZeroPubkey THEN [ok |-> FALSE, val |-> ZeroPubkey]
    ELSE [ok |-> TRUE, val |-> opt[1]]

\* Option::<Pubkey>::from(OptionalNonZeroPubkey)
Option_from(key) == IF key = ZeroPubkey THEN None ELSE Some(key)

(***************************************************************************)
(* Fields and TokenMetadata::update.                                       *)
(***************************************************************************)
\* AnchorField, by borsh variant index: 0 Name, 1 Symbol, 2 Uri, 3 Key(String)
AnchorFields ==
    {[variant |-> v, key |-> <<>>] : v \in 0..2}
        \cup {[variant |-> 3, key |-> k] : k \in KeyStrings}

\* to_field dropping the string carried by Key
to_field_key_dropped(af) ==
    CASE af.variant = 0 -> [kind |-> "Name", key |-> <<>>]
      [] af.variant = 1 -> [kind |-> "Symbol", key |-> <<>>]
      [] af.variant = 2 -> [kind |-> "Uri", key |-> <<>>]
      [] af.variant = 3 -> [kind |-> "Key", key |-> <<>>]

\* to_field with the Name and Symbol arms exchanged
to_field_name_symbol_swapped(af) ==
    CASE af.variant = 0 -> [kind |-> "Symbol", key |-> <<>>]
      [] af.variant = 1 -> [kind |-> "Name", key |-> <<>>]
      [] af.variant = 2 -> [kind |-> "Uri", key |-> <<>>]
      [] af.variant = 3 -> [kind |-> "Key", key |-> af.key]

\* AnchorField::to_field
to_field(af) ==
    CASE af.variant = 0 -> [kind |-> "Name", key |-> <<>>]
      [] af.variant = 1 -> [kind |-> "Symbol", key |-> <<>>]
      [] af.variant = 2 -> [kind |-> "Uri", key |-> <<>>]
      [] af.variant = 3 -> [kind |-> "Key", key |-> af.key]

\* index of the first pair of ps whose key is k, 0 when there is none
RECURSIVE FirstIndex(_, _, _)
FirstIndex(ps, k, i) ==
    IF i > Len(ps) THEN 0
    ELSE IF ps[i][1] = k THEN i
    ELSE FirstIndex(ps, k, i + 1)

\* set_key_value that appends the pair without looking for the key
set_key_value_push(ps, new_key, new_value) == Append(ps, <<new_key, new_value>>)

\* TokenMetadata::set_key_value
set_key_value(ps, new_key, new_value) ==
    LET i == FirstIndex(ps, new_key, 1)
    IN IF i > 0 THEN [ps EXCEPT ![i] = <<new_key, new_value>>]
       ELSE Append(ps, <<new_key, new_value>>)

\* TokenMetadata::update
update(tm, field, value) ==
    CASE field.kind = "Name" -> [tm EXCEPT !.name = value]
      [] field.kind = "Symbol" -> [tm EXCEPT !.symbol = value]
      [] field.kind = "Uri" -> [tm EXCEPT !.uri = value]
      [] field.kind = "Key" ->
            [tm EXCEPT !.additional_metadata = set_key_value(@, field.key, value)]

(***************************************************************************)
(* Writing the account image.                                              *)
(***************************************************************************)
\* copy bytes into data from 1-based position pos
WriteAt(data, pos, bytes) ==
    [i \in 1..Len(data) |->
        IF i >= pos /\ i < pos + Len(bytes) THEN bytes[i - pos + 1] ELSE data[i]]

\* zero data[from..to]
Fill0(data, from, to) ==
    [i \in 1..Len(data) |-> IF i >= from /\ i <= to THEN 0 ELSE data[i]]

\* TlvStateMut::alloc::<TokenMetadata>(length, false) on a zeroed buffer:
\* the first uninitialized entry is at offset 0
alloc(data, length) ==
    IF Len(data) < get_base_len + length
    THEN [ok |-> FALSE, data |-> data]
    ELSE [ok |-> TRUE,
          data |-> WriteAt(WriteAt(data, 1, SPL_DISCRIMINATOR),
                           DISCRIMINATOR_LEN + 1, LE32(length))]

\* TlvStateMut::pack_first_variable_len_value: borsh-write the value into
\* the entry's value bytes; fails when they are too short
pack_first_variable_len_value(data, tm) ==
    LET length == FromLE32(SubSeq(data, DISCRIMINATOR_LEN + 1, get_base_len))
        bytes == try_to_vec(tm)
    IN IF Len(bytes) > length
       THEN [ok |-> FALSE, data |-> data]
       ELSE [ok |-> TRUE, data |-> WriteAt(data, get_base_len + 1, bytes)]

\* TlvStateMut::realloc for the first entry of a one-entry image: store the
\* new length and zero the bytes between the old and the new value end
realloc_tlv(data, old_length, new_length) ==
    LET d == WriteAt(data, DISCRIMINATOR_LEN + 1, LE32(new_length))
    IN IF new_length > old_length
       THEN Fill0(d, get_base_len + old_length + 1, get_base_len + new_length)
       ELSE Fill0(d, get_base_len + new_length + 1, get_base_len + old_length)

\* realloc_and_pack_first_variable_len that never gives account bytes back
realloc_and_pack_no_shrink(data, tm) ==
    LET previous_length == FromLE32(SubSeq(data, DISCRIMINATOR_LEN + 1, get_base_len))
        new_length == get_instance_packed_len(tm)
    IN IF previous_length < new_length
       THEN pack_first_variable_len_value(
                realloc_tlv(data \o Zeros(new_length - previous_length),
                            previous_length, new_length), tm).data
       ELSE realloc_tlv(pack_first_variable_len_value(data, tm).data,
                        previous_length, new_length)

\* realloc_and_pack_first_variable_len that resizes the account and writes
\* the value but leaves the entry's stored length as it was
realloc_and_pack_stale_length(data, tm) ==
    LET previous_length == FromLE32(SubSeq(data, DISCRIMINATOR_LEN + 1, get_base_len))
        new_length == get_instance_packed_len(tm)
        resized == IF previous_length < new_length
                   THEN data \o Zeros(new_length - previous_length)
                   ELSE SubSeq(data, 1, Len(data) - (previous_length - new_length))
    IN WriteAt(resized, get_base_len + 1, try_to_vec(tm))

\* realloc_and_pack_first_variable_len: grow the account, then the entry,
\* then write; or write, shrink the entry, then shrink the account
realloc_and_pack_first_variable_len(data, tm) ==
    LET previous_length == FromLE32(SubSeq(data, DISCRIMINATOR_LEN + 1, get_base_len))
        new_length == get_instance_packed_len(tm)
        previous_account_size == Len(data)
    IN IF previous_length < new_length
       THEN LET grown == data \o Zeros(new_length - previous_length)
            IN pack_first_variable_len_value(
                   realloc_tlv(grown, previous_length, new_length), tm).data
       ELSE LET packed == pack_first_variable_len_value(data, tm).data
                removed_bytes == previous_length - new_length
            IN IF removed_bytes > 0
               THEN SubSeq(realloc_tlv(packed, previous_length, new_length),
                           1, previous_account_size - removed_bytes)
               ELSE packed

(***************************************************************************)
(* Pieces of the instruction handlers.                                     *)
(***************************************************************************)
\* new_token_metadata with name and symbol exchanged
new_token_metadata_swapped(name, symbol, uri, update_authority, mint) ==
    [update_authority |-> update_authority, mint |-> mint,
     name |-> symbol, symbol |-> name, uri |-> uri,
     additional_metadata |-> <<>>]

\* initialize: the TokenMetadata it constructs, additional_metadata from
\* Default::default()
new_token_metadata(name, symbol, uri, update_authority, mint) ==
    [update_authority |-> update_authority, mint |-> mint,
     name |-> name, symbol |-> symbol, uri |-> uri,
     additional_metadata |-> <<>>]

\* initialize: alloc the entry in the fresh zeroed account and pack the record
init_account_data(size, tm) ==
    LET allocated == alloc(Zeros(size), get_instance_packed_len(tm))
    IN IF ~allocated.ok THEN allocated
       ELSE pack_first_variable_len_value(allocated.data, tm)

\* apply_update rebuilding the record around the updated strings and
\* leaving the mint at its default
apply_update_mint_reset(tm, anchor_field, value) ==
    [update(tm, to_field(anchor_field), value) EXCEPT !.mint = ZeroPubkey]

\* apply_update building a fresh record around the three strings when a
\* fixed field is set, which loses the additional fields
apply_update_fresh_record(tm, anchor_field, value) ==
    LET updated == update(tm, to_field(anchor_field), value)
    IN IF anchor_field.variant = 3 THEN updated
       ELSE [updated EXCEPT !.additional_metadata = <<>>]

\* apply_update taking the additional field with the empty key for the
\* update authority and clearing it
apply_update_authority_key(tm, anchor_field, value) ==
    LET updated == update(tm, to_field(anchor_field), value)
    IN IF anchor_field.variant = 3 /\ anchor_field.key = <<>>
       THEN [updated EXCEPT !.update_authority = ZeroPubkey]
       ELSE updated

\* update_field: "Perform the update on the TokenMetadata."
apply_update(tm, anchor_field, value) == update(tm, to_field(anchor_field), value)

\* check_update_authority comparing the stored key with the signer without
\* resolving the unset sentinel first
check_update_authority_no_unset(tm, signer_key) ==
    IF tm.update_authority # signer_key THEN "IncorrectUpdateAuthority" ELSE "Ok"

\* check_update_authority accepting any signer of a mutable record
check_update_authority_any_signer(tm, signer_key) ==
    IF Option_from(tm.update_authority) = None THEN "ImmutableMetadata" ELSE "Ok"

\* check_update_authority comparing the signer before resolving the unset
\* sentinel
check_update_authority_mismatch_first(tm, signer_key) ==
    IF tm.update_authority # signer_key THEN "IncorrectUpdateAuthority"
    ELSE IF Option_from(tm.update_authority) = None THEN "ImmutableMetadata"
    ELSE "Ok"

\* update_field: "Check update authority."
check_update_authority(tm, signer_key) ==
    LET update_authority == Option_from(tm.update_authority)
    IN IF update_authority = None THEN "ImmutableMetadata"
       ELSE IF update_authority[1] # signer_key THEN "IncorrectUpdateAuthority"
       ELSE "Ok"

\* The casts and the signed arithmetic of the lamport difference, for a
\* word of which `two` is the modulus (2^64 on the target).
\* `x as isize` of an unsigned x
cast_isize(x, two) == IF x >= two \div 2 THEN x - two ELSE x
\* two's complement wrap of a signed result
wrap_signed(x, two) == ((x + two \div 2) % two) - two \div 2
\* `x as u64` of a signed x
cast_u64(x, two) == x % two
\* the signed subtraction or the abs() leaves the signed range: a panic in
\* a build with overflow checks, a wrap in one without
difference_overflows(required_lamports, current_lamports, two) ==
    LET d == cast_isize(required_lamports, two) - cast_isize(current_lamports, two)
    IN d < 0 - two \div 2 \/ d > two \div 2 - 1 \/ d = 0 - two \div 2
\* (required_lamports as isize - current_lamports as isize).abs() as u64,
\* wrapping
wrapping_lamport_difference(required_lamports, current_lamports, two) ==
    LET d == wrap_signed(cast_isize(required_lamports, two)
                            - cast_isize(current_lamports, two), two)
        a == IF d < 0 THEN wrap_signed(0 - d, two) ELSE d
    IN cast_u64(a, two)

TwoToBits == 2 ^ ISIZE_BITS
as_isize(x) == cast_isize(x, TwoToBits)
wrap_isize(x) == wrap_signed(x, TwoToBits)
as_u64(x) == cast_u64(x, TwoToBits)

\* update_field: (required_lamports as isize - current_lamports as isize).abs() as u64
\* The lamports of the modelled accounts stay far below half the word, where
\* no build overflows.
lamport_difference(required_lamports, current_lamports) ==
    wrapping_lamport_difference(required_lamports, current_lamports, TwoToBits)

\* transfer_lamports that tops the account up but never returns an excess
transfer_lamports_no_refund(metadata_lamports, payer_lamports, required_lamports) ==
    IF required_lamports > metadata_lamports
    THEN IF payer_lamports < required_lamports - metadata_lamports
         THEN [ok |-> FALSE, metadata |-> metadata_lamports, payer |-> payer_lamports]
         ELSE [ok |-> TRUE, metadata |-> required_lamports,
               payer |-> payer_lamports - (required_lamports - metadata_lamports)]
    ELSE [ok |-> TRUE, metadata |-> metadata_lamports, payer |-> payer_lamports]

\* transfer_lamports that takes an excess out of the metadata account and
\* never adds it to the payer
transfer_lamports_refund_lost(metadata_lamports, payer_lamports, required_lamports) ==
    IF required_lamports > metadata_lamports
    THEN IF payer_lamports < required_lamports - metadata_lamports
         THEN [ok |-> FALSE, metadata |-> metadata_lamports, payer |-> payer_lamports]
         ELSE [ok |-> TRUE, metadata |-> required_lamports,
               payer |-> payer_lamports - (required_lamports - metadata_lamports)]
    ELSE [ok |-> TRUE, metadata |-> required_lamports, payer |-> payer_lamports]

\* transfer_lamports that hands over whatever the payer holds when the payer
\* cannot cover the whole amount
transfer_lamports_partial(metadata_lamports, payer_lamports, required_lamports) ==
    IF required_lamports > metadata_lamports
    THEN IF payer_lamports < required_lamports - metadata_lamports
         THEN [ok |-> TRUE, metadata |-> metadata_lamports + payer_lamports, payer |-> 0]
         ELSE [ok |-> TRUE, metadata |-> required_lamports,
               payer |-> payer_lamports - (required_lamports - metadata_lamports)]
    ELSE [ok |-> TRUE, metadata |-> required_lamports,
          payer |-> payer_lamports + (metadata_lamports - required_lamports)]

\* update_field: "Transfer lamports if required."  The system transfer
\* fails when the payer holds less than the amount; sub_lamports and
\* add_lamports are checked.
transfer_lamports(metadata_lamports, payer_lamports, required_lamports) ==
    LET current_lamports == metadata_lamports
        unchanged == [ok |-> TRUE, metadata |-> metadata_lamports, payer |-> payer_lamports]
        failed == [ok |-> FALSE, metadata |-> metadata_lamports, payer |-> payer_lamports]
    IN IF required_lamports # current_lamports
       THEN LET diff == lamport_difference(required_lamports, current_lamports)
            IN IF required_lamports > current_lamports
               THEN IF payer_lamports < diff THEN failed
                    ELSE [ok |-> TRUE, metadata |-> metadata_lamports + diff,
                          payer |-> payer_lamports - diff]
               ELSE IF metadata_lamports < diff THEN failed
                    ELSE [ok |-> TRUE, metadata |-> metadata_lamports - diff,
                          payer |-> payer_lamports + diff]
       ELSE unchanged

(***************************************************************************)
(* State.                                                                  *)
(***************************************************************************)
VARIABLES
    metadata,   \* the metadata account of each mint: lamports, data, owner
    payer,      \* lamports of each payer account
    last,       \* the last instruction: arguments, result, accounts before it
    created,    \* per mint: what the successful initialize was given
    written,    \* per mint: the record the last successful instruction packed
    ncredits    \* third-party credits so far

vars == <<metadata, payer, last, created, written, ncredits>>

\* an address nothing was created at
NoAccount == [lamports |-> 0, data |-> <<>>, owner |-> "system"]

NoOp ==
    [op |-> "none", mint |-> 0, payer |-> 0, signer |-> 0, authority |-> None,
     name |-> <<>>, symbol |-> <<>>, uri |-> <<>>,
     field |-> [variant |-> 0, key |-> <<>>], value |-> <<>>,
     result |-> "none", pre |-> NoAccount, pre_payer |-> 0,
     pc |-> "done"]     \* where inside the handler the instruction stands

\* lamports a payer may start with: enough for a record and most of its
\* growth, or too little to create one
InitialLamports == {1676000, 1000000}

Init ==
    /\ metadata = [m \in Mints |-> NoAccount]
    /\ payer \in [Payers -> InitialLamports]
    /\ last = NoOp
    /\ created = [m \in Mints |-> [done |-> FALSE, authority |-> None, mint |-> <<>>]]
    /\ written = [m \in Mints |-> NoMetadata]
    /\ ncredits = 0

(***************************************************************************)
(* Instructions.  A failed instruction leaves the accounts as they were   *)
(* (the runtime discards the writes of a failed transaction).              *)
(***************************************************************************)
\* create_account that allocates over whatever is at the address
create_account_over_existing(account, payer_lamports, lamports, size) ==
    IF payer_lamports < lamports
    THEN [result |-> "ResultWithNegativeLamports", account |-> account, payer |-> payer_lamports]
    ELSE [result |-> "Ok",
          account |-> [lamports |-> lamports, data |-> Zeros(size), owner |-> "program"],
          payer |-> payer_lamports - lamports]

\* system_program::create_account(from payer, to metadata, lamports, size, owner id())
create_account(account, payer_lamports, lamports, size) ==
    IF account.lamports > 0 \/ account.data # <<>> \/ account.owner # "system"
    THEN [result |-> "AccountAlreadyInUse", account |-> account, payer |-> payer_lamports]
    ELSE IF payer_lamports < lamports
    THEN [result |-> "ResultWithNegativeLamports", account |-> account, payer |-> payer_lamports]
    ELSE [result |-> "Ok",
          account |-> [lamports |-> lamports, data |-> Zeros(size), owner |-> "program"],
          payer |-> payer_lamports - lamports]

initialize(m, p, authority, name, symbol, uri) ==
    LET update_authority_key ==
            IF authority = None THEN None ELSE Some(Pubkey(authority[1]))
        update_authority == OptionalNonZeroPubkey_try_from(update_authority_key)
        token_metadata ==
            new_token_metadata(name, symbol, uri, update_authority.val, MintKey(m))
        size == tlv_size_of(token_metadata)
        lamports == minimum_balance(size)
        made == create_account(metadata[m], payer[p], lamports, size)
        packed == init_account_data(size, token_metadata)
        result == IF ~update_authority.ok THEN "InvalidArgument"
                  ELSE IF made.result # "Ok" THEN made.result
                  ELSE IF ~packed.ok THEN "InvalidAccountData"
                  ELSE "Ok"
    IN /\ last.op = "none"
       /\ UNCHANGED ncredits
       /\ last' = [NoOp EXCEPT !.op = "initialize", !.mint = m, !.payer = p,
                               !.authority = authority, !.name = name,
                               !.symbol = symbol, !.uri = uri, !.result = result,
                               !.pre = metadata[m], !.pre_payer = payer[p]]
       /\ IF result = "Ok"
          THEN /\ metadata' = [metadata EXCEPT ![m] = [made.account EXCEPT !.data = packed.data]]
               /\ payer' = [payer EXCEPT ![p] = made.payer]
               /\ created' = [created EXCEPT ![m] =
                                [done |-> TRUE, authority |-> authority, mint |-> MintKey(m)]]
               /\ written' = [written EXCEPT ![m] = token_metadata]
          ELSE UNCHANGED <<metadata, payer, created, written>>

update_field(m, p, signer, anchor_field, value) ==
    LET account == metadata[m]
        decoded == get_first_variable_len_value(account.data)
        authorized == check_update_authority(decoded.val, Pubkey(signer))
        token_metadata == apply_update(decoded.val, anchor_field, value)
        new_size == tlv_size_of(token_metadata)
        required_lamports == minimum_balance(new_size)
        moved == transfer_lamports(account.lamports, payer[p], required_lamports)
        result == IF ~decoded.ok THEN "InvalidAccountData"
                  ELSE IF authorized # "Ok" THEN authorized
                  ELSE IF ~moved.ok THEN "ResultWithNegativeLamports"
                  ELSE "Ok"
    IN /\ last.op = "none"
       /\ UNCHANGED ncredits
       /\ last' = [NoOp EXCEPT !.op = "update_field", !.mint = m, !.payer = p,
                               !.signer = signer, !.field = anchor_field,
                               !.value = value, !.result = result,
                               !.pre = metadata[m], !.pre_payer = payer[p]]
       /\ IF result = "Ok"
          THEN /\ metadata' = [metadata EXCEPT ![m] =
                    [account EXCEPT
                        !.lamports = moved.metadata,
                        !.data = realloc_and_pack_first_variable_len(account.data,
                                                                     token_metadata)]]
               /\ payer' = [payer EXCEPT ![p] = moved.payer]
               /\ written' = [written EXCEPT ![m] = token_metadata]
               /\ UNCHANGED created
          ELSE UNCHANGED <<metadata, payer, created, written>>

\* Anyone may send lamports to a metadata address with a system transfer;
\* only the owning program can take them out again.
Credit(m, p, amount) ==
    /\ last.op = "none"
    /\ ncredits < MaxCredits
    /\ payer[p] >= amount
    /\ ncredits' = ncredits + 1
    /\ last' = [NoOp EXCEPT !.op = "credit", !.mint = m, !.payer = p, !.result = "Ok",
                            !.pre = metadata[m], !.pre_payer = payer[p]]
    /\ metadata' = [metadata EXCEPT ![m].lamports = @ + amount]
    /\ payer' = [payer EXCEPT ![p] = @ - amount]
    /\ UNCHANGED <<created, written>>

\* The result of the instruction has been handed back and the accounts are
\* committed; the next instruction can be dispatched.
Return ==
    /\ last.op # "none"
    /\ last.pc = "done"
    /\ last' = NoOp
    /\ UNCHANGED <<metadata, payer, created, written, ncredits>>

Authorities == {None} \cup {Some(a) : a \in InitAuthorities}

Next ==
    \/ \E m \in Mints, p \in Payers, authority \in Authorities,
          name \in Strings, symbol \in Strings, uri \in Strings :
            initialize(m, p, authority, name, symbol, uri)
    \/ \E m \in Mints, p \in Payers, signer \in Identities,
          anchor_field \in AnchorFields, value \in Strings :
            update_field(m, p, signer, anchor_field, value)
    \/ \E m \in Mints, p \in Payers, amount \in CreditAmounts : Credit(m, p, amount)
    \/ Return

Spec == Init /\ [][Next]_vars

(***************************************************************************)
(* update_field statement by statement.  The accounts show what the        *)
(* handler's own statements have done so far; a handler that returns an    *)
(* error stops where it is, and the runtime then puts the accounts back.   *)
(***************************************************************************)
\* the record update_field holds in memory once it has applied the update
updated_token_metadata ==
    apply_update(get_first_variable_len_value(last.pre.data).val, last.field, last.value)

\* "Get current TokenMetadata."
update_field_decode(m, p, signer, anchor_field, value) ==
    LET decoded == get_first_variable_len_value(metadata[m].data)
    IN /\ last.op = "none"
       /\ last' = [NoOp EXCEPT !.op = "update_field", !.mint = m, !.payer = p,
                               !.signer = signer, !.field = anchor_field,
                               !.value = value,
                               !.pre = metadata[m], !.pre_payer = payer[p],
                               !.result = IF decoded.ok THEN "none"
                                          ELSE "InvalidAccountData",
                               !.pc = IF decoded.ok THEN "check_update_authority"
                                      ELSE "failed"]
       /\ UNCHANGED <<metadata, payer, created, written, ncredits>>

\* "Check update authority."
update_field_check_update_authority ==
    LET authorized == check_update_authority(get_first_variable_len_value(last.pre.data).val,
                                             Pubkey(last.signer))
    IN /\ last.op = "update_field"
       /\ last.pc = "check_update_authority"
       /\ last' = [last EXCEPT !.result = IF authorized = "Ok" THEN "none" ELSE authorized,
                               !.pc = IF authorized = "Ok" THEN "update" ELSE "failed"]
       /\ UNCHANGED <<metadata, payer, created, written, ncredits>>

\* "Perform the update on the TokenMetadata." and the sizes computed from
\* it: all in the handler's memory
update_field_update ==
    /\ last.op = "update_field"
    /\ last.pc = "update"
    /\ last' = [last EXCEPT !.pc = "transfer_lamports"]
    /\ UNCHANGED <<metadata, payer, created, written, ncredits>>

\* "Transfer lamports if required."
update_field_transfer_lamports ==
    LET m == last.mint
        p == last.payer
        required_lamports == minimum_balance(tlv_size_of(updated_token_metadata))
        moved == transfer_lamports(metadata[m].lamports, payer[p], required_lamports)
    IN /\ last.op = "update_field"
       /\ last.pc = "transfer_lamports"
       /\ IF moved.ok
          THEN /\ metadata' = [metadata EXCEPT ![m].lamports = moved.metadata]
               /\ payer' = [payer EXCEPT ![p] = moved.payer]
               /\ last' = [last EXCEPT !.pc = "realloc_and_pack"]
          ELSE /\ last' = [last EXCEPT !.result = "ResultWithNegativeLamports",
                                       !.pc = "failed"]
               /\ UNCHANGED <<metadata, payer>>
       /\ UNCHANGED <<created, written, ncredits>>

\* "Reallocate and update the metadata account data."  The runtime refuses
\* to grow an account past its limits (InvalidRealloc); a realloc that does
\* not grow is never refused.
update_field_realloc_and_pack(accepted) ==
    LET m == last.mint
        grows == tlv_size_of(updated_token_metadata) > Len(metadata[m].data)
    IN /\ last.op = "update_field"
       /\ last.pc = "realloc_and_pack"
       /\ IF grows /\ ~accepted
          THEN /\ last' = [last EXCEPT !.result = "InvalidRealloc", !.pc = "failed"]
               /\ UNCHANGED <<metadata, written>>
          ELSE /\ metadata' = [metadata EXCEPT ![m].data =
                    realloc_and_pack_first_variable_len(metadata[m].data,
                                                        updated_token_metadata)]
               /\ written' = [written EXCEPT ![m] = updated_token_metadata]
               /\ last' = [last EXCEPT !.result = "Ok", !.pc = "done"]
       /\ UNCHANGED <<payer, created, ncredits>>

\* The handler returned an error: the runtime discards what the instruction
\* wrote to its accounts.
update_field_err ==
    /\ last.op = "update_field"
    /\ last.pc = "failed"
    /\ metadata' = [metadata EXCEPT ![last.mint] = last.pre]
    /\ payer' = [payer EXCEPT ![last.payer] = last.pre_payer]
    /\ last' = [last EXCEPT !.pc = "done"]
    /\ UNCHANGED <<created, written, ncredits>>

NextSteps ==
    \/ \E m \in Mints, p \in Payers, authority \in Authorities,
          name \in Strings, symbol \in Strings, uri \in Strings :
            initialize(m, p, authority, name, symbol, uri)
    \/ \E m \in Mints, p \in Payers, signer \in Identities,
          anchor_field \in AnchorFields, value \in Strings :
            update_field_decode(m, p, signer, anchor_field, value)
    \/ update_field_check_update_authority
    \/ update_field_update
    \/ update_field_transfer_lamports
    \/ \E accepted \in BOOLEAN : update_field_realloc_and_pack(accepted)
    \/ update_field_err
    \/ \E m \in Mints, p \in Payers, amount \in CreditAmounts : Credit(m, p, amount)
    \/ Return

SpecSteps == Init /\ [][NextSteps]_vars

\* nothing the handler did so far has changed the accounts
AccountsAsAtStart ==
    /\ metadata[last.mint] = last.pre
    /\ payer[last.payer] = last.pre_payer

(***************************************************************************)
(* The lamport difference of update_field on its own, over every pair of   *)
(* values of a word of WordBits bits.                                      *)
(***************************************************************************)
TwoToWord == 2 ^ WordBits
Words == 0..(TwoToWord - 1)

\* what the "Transfer lamports if required." block can do with a pair: the
\* amount it moves and where, or a panic.  Without the build's profile both
\* treatments of an overflow are possible.
lamport_adjustments(required_lamports, current_lamports) ==
    LET moved(amount) ==
            [panicked |-> FALSE, amount |-> amount,
             into |-> IF required_lamports > current_lamports THEN "metadata"
                      ELSE "payer"]
        wrapping == wrapping_lamport_difference(required_lamports, current_lamports,
                                                TwoToWord)
    IN IF required_lamports = current_lamports
       THEN {[panicked |-> FALSE, amount |-> 0, into |-> "none"]}
       ELSE IF difference_overflows(required_lamports, current_lamports, TwoToWord)
       THEN {moved(wrapping), [panicked |-> TRUE, amount |-> 0, into |-> "none"]}
       ELSE {moved(wrapping)}

NoAdjustment == [panicked |-> FALSE, amount |-> 0, into |-> "none"]

DifferenceInit ==
    /\ last \in {[op |-> "none", required_lamports |-> r, current_lamports |-> c,
                  adjustment |-> NoAdjustment] : r \in Words, c \in Words}
    /\ metadata = [m \in Mints |-> NoAccount]
    /\ payer = [p \in Payers |-> 0]
    /\ created = [m \in Mints |-> [done |-> FALSE, authority |-> None, mint |-> <<>>]]
    /\ written = [m \in Mints |-> NoMetadata]
    /\ ncredits = 0

adjust_lamports(outcome) ==
    /\ last.op = "none"
    /\ outcome \in lamport_adjustments(last.required_lamports, last.current_lamports)
    /\ last' = [last EXCEPT !.op = "adjust_lamports", !.adjustment = outcome]
    /\ UNCHANGED <<metadata, payer, created, written, ncredits>>

DifferenceNext ==
    \E panicked \in BOOLEAN, amount \in Words, into \in {"metadata", "payer", "none"} :
        adjust_lamports([panicked |-> panicked, amount |-> amount, into |-> into])

SpecDifference == DifferenceInit /\ [][DifferenceNext]_vars

(***************************************************************************)
(* The same instructions with two payers, for what depends on who pays:    *)
(* one authority, records that start with a name only, no third-party      *)
(* credits, and payers who can fund a few bytes of growth each.            *)
(***************************************************************************)
TwoPayers == {1, 2}

\* lamports the two payers may start with: the minimum of the largest record
\* initialize can make here plus ten bytes of growth, or those ten bytes
\* only; at most one payer starts with the former
PayersLamports == {1607760, 69600}

InitPayers ==
    /\ metadata = [m \in Mints |-> NoAccount]
    /\ payer \in {f \in [TwoPayers -> PayersLamports] : \E p \in TwoPayers : f[p] = 69600}
    /\ last = NoOp
    /\ created = [m \in Mints |-> [done |-> FALSE, authority |-> None, mint |-> <<>>]]
    /\ written = [m \in Mints |-> NoMetadata]
    /\ ncredits = 0

NextPayers ==
    \/ \E m \in Mints, p \in TwoPayers, name \in Strings :
            initialize(m, p, Some(1), name, <<>>, <<>>)
    \/ \E m \in Mints, p \in TwoPayers, anchor_field \in AnchorFields, value \in Strings :
            update_field(m, p, 1, anchor_field, value)
    \/ Return

SpecPayers == InitPayers /\ [][NextPayers]_vars

TypeOK == ncredits \in 0..MaxCredits
(***************************************************************************)
(* What the properties read.                                               *)
(***************************************************************************)
\* the record an account image decodes to
Decoded(data) == get_first_variable_len_value(data)
\* the record stored for mint m now, and the one stored before the last instruction
Stored(m) == Decoded(metadata[m].data).val
PreStored == Decoded(last.pre.data).val

LastOk(op) == last.op = op /\ last.result = "Ok"
\* the last instruction was an update_field on a record whose authority is identity a
UpdateUnderAuthority(a) ==
    /\ last.op = "update_field"
    /\ Decoded(last.pre.data).ok
    /\ PreStored.update_authority = Pubkey(a)

(***************************************************************************)
(* C1: a record created without update authority stays immutable: every   *)
(* later update_field on it, by any signer, for any field and value,       *)
(* fails with ImmutableMetadata, and the stored authority stays unset so   *)
(* that no signer can ever pass the authority check.                       *)
(***************************************************************************)
C1_ImmutableForever ==
    \A m \in Mints :
        (created[m].done /\ created[m].authority = None) =>
            /\ (last.op = "update_field" /\ last.mint = m)
                    => last.result = "ImmutableMetadata"
            /\ Decoded(metadata[m].data).ok
            /\ Stored(m).update_authority = ZeroPubkey

\* an update_field signed by the all-zero key was refused on an immutable record
C1_Witness ==
    \E m \in Mints :
        /\ created[m].done /\ created[m].authority = None
        /\ last.op = "update_field" /\ last.mint = m /\ last.signer = 0
        /\ last.result = "ImmutableMetadata"

(***************************************************************************)
(* C2 as stated: on a record whose authority is a concrete identity A, an  *)
(* update_field signed by another identity fails with                      *)
(* IncorrectUpdateAuthority and one signed by A succeeds, whatever the     *)
(* field and value.                                                        *)
(***************************************************************************)
C2_AuthorityAlwaysSucceeds ==
    \A a \in Identities \ {0} :
        UpdateUnderAuthority(a) =>
            /\ last.signer # a => last.result = "IncorrectUpdateAuthority"
            /\ last.signer = a => last.result = "Ok"

\* lamports the update_field just run had to add to the metadata account
LastRequiredIncrease ==
    minimum_balance(tlv_size_of(apply_update(PreStored, last.field, last.value)))
        - last.pre.lamports

(***************************************************************************)
(* C2 amended: on a record whose authority is a concrete identity A, an    *)
(* update_field signed by another identity fails with                      *)
(* IncorrectUpdateAuthority; one signed by A passes both authority checks  *)
(* and succeeds unless the payer cannot cover the funding increase, in     *)
(* which case the transfer's failure is the result.                        *)
(***************************************************************************)
C2_AuthorityEnforced ==
    \A a \in Identities \ {0} :
        UpdateUnderAuthority(a) =>
            /\ last.signer # a => last.result = "IncorrectUpdateAuthority"
            /\ last.signer = a =>
                    IF last.pre_payer < LastRequiredIncrease
                    THEN last.result = "ResultWithNegativeLamports"
                    ELSE last.result = "Ok"

\* the authority's own update_field was stopped by the payer's balance
C2_Witness ==
    /\ UpdateUnderAuthority(1)
    /\ last.signer = 1
    /\ last.result = "ResultWithNegativeLamports"

(***************************************************************************)
(* C3: after a successful initialize or update_field the metadata          *)
(* account holds exactly minimum_balance(encoded size of the record now    *)
(* stored), whatever it held when the instruction started.                 *)
(***************************************************************************)
C3_ExactFunding ==
    (LastOk("initialize") \/ LastOk("update_field")) =>
        /\ Decoded(metadata[last.mint].data).ok
        /\ metadata[last.mint].lamports = minimum_balance(tlv_size_of(Stored(last.mint)))

\* a successful update_field that started on an account holding more than
\* its minimum
C3_Witness ==
    /\ LastOk("update_field")
    /\ last.pre.lamports > minimum_balance(Len(last.pre.data))
    /\ metadata[last.mint].lamports = minimum_balance(Len(metadata[last.mint].data))

(***************************************************************************)
(* C4: a successful update_field with Key(k) appends (k, value) after the  *)
(* unchanged earlier pairs when no pair has key k, and otherwise replaces  *)
(* the value of the first pair with key k only: the number of pairs, the   *)
(* other pairs and the order stay.                                         *)
(***************************************************************************)
C4_KeyUpsert ==
    (LastOk("update_field") /\ last.field.variant = 3) =>
        LET ps == PreStored.additional_metadata
            qs == Stored(last.mint).additional_metadata
            k == last.field.key
            hits == {i \in 1..Len(ps) : ps[i][1] = k}
        IN IF hits = {}
           THEN /\ Len(qs) = Len(ps) + 1
                /\ qs[Len(qs)] = <<k, last.value>>
                /\ \A i \in 1..Len(ps) : qs[i] = ps[i]
           ELSE LET first == CHOOSE i \in hits : \A j \in hits : i <= j
                IN /\ Len(qs) = Len(ps)
                   /\ qs[first] = <<k, last.value>>
                   /\ \A i \in 1..Len(ps) : i # first => qs[i] = ps[i]

\* the first of two pairs got a new value and the second pair stayed
C4_Witness ==
    /\ LastOk("update_field") /\ last.field.variant = 3
    /\ Len(PreStored.additional_metadata) = 2
    /\ PreStored.additional_metadata[1][1] = last.field.key
    /\ PreStored.additional_metadata[1][2] # last.value
    /\ Stored(last.mint).additional_metadata[1] = <<last.field.key, last.value>>

(***************************************************************************)
(* C5: the mint stored in a record is the mint given to initialize, in     *)
(* every state reached by later instructions, successful or not.           *)
(***************************************************************************)
C5_MintImmutable ==
    \A m \in Mints :
        created[m].done =>
            /\ Decoded(metadata[m].data).ok
            /\ Stored(m).mint = created[m].mint

\* a successful update_field of a name left the mint of the record in place
C5_Witness ==
    /\ LastOk("update_field") /\ last.field.variant = 0
    /\ PreStored.name # last.value
    /\ Stored(last.mint).mint = MintKey(last.mint)

\* what the last successful update_field did to the account and the payer
LastFundingChange == metadata[last.mint].lamports - last.pre.lamports
LastPayerChange == payer[last.payer] - last.pre_payer
LastOldSize == tlv_size_of(PreStored)
LastNewSize == tlv_size_of(Stored(last.mint))

(***************************************************************************)
(* C6 as stated: a successful update_field that changes the encoded size   *)
(* from old_size to new_size changes the account's funding by exactly      *)
(* minimum_balance(new_size) - minimum_balance(old_size), the payer's      *)
(* balance by the opposite amount, and keeps their sum.                    *)
(***************************************************************************)
C6_FundingDeltaBySize ==
    (LastOk("update_field") /\ LastNewSize # LastOldSize) =>
        /\ LastFundingChange = minimum_balance(LastNewSize) - minimum_balance(LastOldSize)
        /\ LastPayerChange = 0 - LastFundingChange

(***************************************************************************)
(* C6 amended: a successful update_field that changes the encoded size     *)
(* from old_size to new_size changes the account's funding by exactly      *)
(* minimum_balance(new_size) minus the balance the account held at the     *)
(* start, which is minimum_balance(new_size) - minimum_balance(old_size)   *)
(* whenever the account held exactly minimum_balance(old_size); that       *)
(* amount is taken from the payer when positive and credited to the payer  *)
(* when negative, so the sum of both balances is unchanged.                *)
(***************************************************************************)
C6_FundingDelta ==
    (LastOk("update_field") /\ LastNewSize # LastOldSize) =>
        /\ LastFundingChange = minimum_balance(LastNewSize) - last.pre.lamports
        /\ last.pre.lamports = minimum_balance(LastOldSize)
                => LastFundingChange
                       = minimum_balance(LastNewSize) - minimum_balance(LastOldSize)
        /\ LastPayerChange = 0 - LastFundingChange

\* a key's value was replaced by the empty string: the pair stayed, the
\* record shrank and the payer got the difference
C6_Witness ==
    /\ LastOk("update_field") /\ last.field.variant = 3 /\ last.value = <<>>
    /\ Len(Stored(last.mint).additional_metadata) = Len(PreStored.additional_metadata)
    /\ LastNewSize < LastOldSize
    /\ LastPayerChange = minimum_balance(LastOldSize) - minimum_balance(LastNewSize)

\* the last update_field was signed by the record's authority and wrote
\* the value the field already had
SameValueUpdate ==
    /\ last.op = "update_field"
    /\ Decoded(last.pre.data).ok
    /\ PreStored.update_authority = Pubkey(last.signer)
    /\ last.signer # 0
    /\ CASE last.field.variant = 0 -> PreStored.name = last.value
         [] last.field.variant = 1 -> PreStored.symbol = last.value
         [] last.field.variant = 2 -> PreStored.uri = last.value
         [] last.field.variant = 3 ->
                \E i \in 1..Len(PreStored.additional_metadata) :
                    PreStored.additional_metadata[i] = <<last.field.key, last.value>>

(***************************************************************************)
(* C7 as stated: an update_field by the authority with the value the field *)
(* already has changes nothing: record, encoded size, account size and     *)
(* funding, and payer balance are as before.                               *)
(***************************************************************************)
C7_SameValueNoOp ==
    SameValueUpdate =>
        /\ metadata[last.mint] = last.pre
        /\ payer[last.payer] = last.pre_payer

(***************************************************************************)
(* C7 amended: an update_field by the authority with the value the field   *)
(* already has succeeds and leaves the record, its encoded size and the    *)
(* account's bytes as before; funding and payer balance are as before when *)
(* the account held exactly minimum_balance(size) at the start, and        *)
(* otherwise the excess over that minimum moves to the payer.              *)
(***************************************************************************)
C7_SameValueKeepsRecord ==
    SameValueUpdate =>
        /\ last.result = "Ok"
        /\ metadata[last.mint].data = last.pre.data
        /\ metadata[last.mint].owner = last.pre.owner
        /\ metadata[last.mint].lamports = minimum_balance(Len(last.pre.data))
        /\ LastPayerChange = last.pre.lamports - minimum_balance(Len(last.pre.data))

\* an existing key was written with its own value on an account holding
\* its minimum: nothing moved
C7_Witness ==
    /\ SameValueUpdate /\ last.field.variant = 3
    /\ last.pre.lamports = minimum_balance(Len(last.pre.data))
    /\ metadata[last.mint] = last.pre
    /\ payer[last.payer] = last.pre_payer

(***************************************************************************)
(* C8: after a successful initialize or update_field the account is        *)
(* exactly as long as the TLV encoding of the record it holds (entry       *)
(* header plus payload), also after a shrinking update.                    *)
(***************************************************************************)
C8_ExactLength ==
    (LastOk("initialize") \/ LastOk("update_field")) =>
        /\ Decoded(metadata[last.mint].data).ok
        /\ Len(metadata[last.mint].data) = tlv_size_of(Stored(last.mint))
        /\ Len(metadata[last.mint].data)
               = get_base_len
                   + FromLE32(SubSeq(metadata[last.mint].data,
                                     DISCRIMINATOR_LEN + 1, get_base_len))

\* an update_field left the account shorter than it was
C8_Witness ==
    /\ LastOk("update_field")
    /\ Len(metadata[last.mint].data) < Len(last.pre.data)
    /\ Len(metadata[last.mint].data) = tlv_size_of(Stored(last.mint))

(***************************************************************************)
(* C9: a successful initialize leaves an account that decodes to the given *)
(* name, symbol and uri, the given authority or the unset sentinel when    *)
(* none is given, the mint, and no additional fields; its funding is the   *)
(* minimum for its size and was taken from the payer.                      *)
(***************************************************************************)
C9_CreateResult ==
    LastOk("initialize") =>
        /\ Decoded(metadata[last.mint].data).ok
        /\ Stored(last.mint) =
                [update_authority |-> IF last.authority = None THEN ZeroPubkey
                                      ELSE Pubkey(last.authority[1]),
                 mint |-> MintKey(last.mint),
                 name |-> last.name, symbol |-> last.symbol, uri |-> last.uri,
                 additional_metadata |-> <<>>]
        /\ last.pre.lamports = 0
        /\ metadata[last.mint].lamports = minimum_balance(Len(metadata[last.mint].data))
        /\ payer[last.payer] = last.pre_payer - metadata[last.mint].lamports

\* a record was created without authority, with a name and an empty symbol
C9_Witness ==
    /\ LastOk("initialize") /\ last.authority = None
    /\ last.name = <<97>> /\ last.symbol = <<>>
    /\ Stored(last.mint).update_authority = ZeroPubkey
    /\ Stored(last.mint).name = <<97>>

(***************************************************************************)
(* C10: the record an update_field would decode from the account equals,   *)
(* field for field, the record the last successful initialize or           *)
(* update_field packed into it.                                            *)
(***************************************************************************)
C10_RoundTrip ==
    \A m \in Mints :
        created[m].done =>
            /\ Decoded(metadata[m].data).ok
            /\ Stored(m) = written[m]

\* a record with two additional fields, written by a growing update_field,
\* decodes to what was packed
C10_Witness ==
    /\ LastOk("update_field")
    /\ Len(written[last.mint].additional_metadata) = 2
    /\ Len(metadata[last.mint].data) > Len(last.pre.data)
    /\ Stored(last.mint) = written[last.mint]

(***************************************************************************)
(* C11: an update_field signed by the record's authority that needs more   *)
(* lamports than the metadata account holds, with a payer who cannot cover *)
(* the difference, fails, and the stored record, the account's size and    *)
(* lamports and the payer's balance are what they were.                    *)
(***************************************************************************)
C11_UnaffordableGrowthFails ==
    \A a \in Identities \ {0} :
        (/\ UpdateUnderAuthority(a)
         /\ last.signer = a
         /\ LastRequiredIncrease > 0
         /\ last.pre_payer < LastRequiredIncrease) =>
            /\ last.result # "Ok"
            /\ metadata[last.mint] = last.pre
            /\ Stored(last.mint) = PreStored
            /\ payer[last.payer] = last.pre_payer

\* the authority asked for a new additional field the payer could not fund,
\* and the account still has the size and lamports it had
C11_Witness ==
    /\ UpdateUnderAuthority(1)
    /\ last.signer = 1
    /\ last.field.variant = 3
    /\ LastRequiredIncrease > last.pre_payer
    /\ last.result = "ResultWithNegativeLamports"
    /\ Len(metadata[last.mint].data) = Len(last.pre.data)
    /\ metadata[last.mint].lamports = last.pre.lamports

(***************************************************************************)
(* C12: update_field evaluates both authority checks before any of its own *)
(* statements has changed anything: when it is about to check, and at the  *)
(* moment it returns ImmutableMetadata or IncorrectUpdateAuthority, the    *)
(* metadata account (record, size, lamports) and the payer's balance are   *)
(* those of the start, before the runtime puts anything back.  The unset   *)
(* check comes first: on a record without authority every signer, matching *)
(* the stored bytes or not, gets ImmutableMetadata.                        *)
(***************************************************************************)
C12_AuthorityChecksBeforeEffects ==
    last.op = "update_field" =>
        /\ last.pc = "check_update_authority" => AccountsAsAtStart
        /\ (/\ last.pc = "failed"
            /\ last.result \in {"ImmutableMetadata", "IncorrectUpdateAuthority"})
                => /\ AccountsAsAtStart
                   /\ Stored(last.mint) = PreStored
        /\ (/\ Decoded(last.pre.data).ok
            /\ PreStored.update_authority = ZeroPubkey
            /\ last.pc \notin {"check_update_authority"})
                => last.result = "ImmutableMetadata"
        /\ (/\ Decoded(last.pre.data).ok
            /\ PreStored.update_authority \notin {ZeroPubkey, Pubkey(last.signer)}
            /\ last.pc \notin {"check_update_authority"})
                => last.result = "IncorrectUpdateAuthority"

\* update_field has just returned ImmutableMetadata to a signer whose key
\* is not the stored one, on an account a third party had added lamports to
C12_Witness ==
    /\ last.op = "update_field" /\ last.pc = "failed"
    /\ last.result = "ImmutableMetadata"
    /\ last.signer = 1
    /\ PreStored.update_authority = ZeroPubkey
    /\ last.pre.lamports > minimum_balance(Len(last.pre.data))
    /\ AccountsAsAtStart

\* the metadata account holds at least the minimum for the size it has now
Solvent(m) == metadata[m].lamports >= minimum_balance(Len(metadata[m].data))

(***************************************************************************)
(* C13 as stated: at every statement of update_field, not only at its      *)
(* end, the metadata account holds at least the minimum for its currently  *)
(* allocated size: lamports are added before the allocation grows and are  *)
(* not taken out before the allocation has shrunk.                         *)
(***************************************************************************)
C13_SolventAtEveryStep ==
    (last.op = "update_field" /\ Decoded(last.pre.data).ok) => Solvent(last.mint)

(***************************************************************************)
(* C13 amended: the metadata account holds at least the minimum for its    *)
(* allocated size when update_field starts, up to the lamport transfer,    *)
(* and when it has returned.  Between the transfer and                     *)
(* realloc_and_pack_first_variable_len it holds exactly the minimum for    *)
(* the new size: lamports are added before the allocation grows, but the   *)
(* excess of a shrinking update is handed to the payer while the account   *)
(* still has its old, larger size, so there the account holds less than    *)
(* the minimum for its allocated size.                                     *)
(***************************************************************************)
C13_SolventExceptBeforeShrink ==
    (last.op = "update_field" /\ Decoded(last.pre.data).ok) =>
        LET m == last.mint
            new_size == tlv_size_of(updated_token_metadata)
        IN IF last.pc = "realloc_and_pack"
           THEN /\ metadata[m].lamports = minimum_balance(new_size)
                /\ Len(metadata[m].data) = Len(last.pre.data)
                /\ Solvent(m) <=> new_size >= Len(metadata[m].data)
           ELSE Solvent(m)

\* a shrinking update_field has returned the excess and not yet shrunk the
\* account
C13_Witness ==
    /\ last.op = "update_field" /\ last.pc = "realloc_and_pack"
    /\ tlv_size_of(updated_token_metadata) < Len(metadata[last.mint].data)
    /\ payer[last.payer] > last.pre_payer
    /\ ~Solvent(last.mint)

C15_ExactDifference ==
    last.op = "adjust_lamports" =>
        LET r == last.required_lamports
            c == last.current_lamports
        IN /\ ~last.adjustment.panicked
           /\ last.adjustment.amount = IF r > c THEN r - c ELSE c - r
           /\ r > c => last.adjustment.into = "metadata"
           /\ r < c => last.adjustment.into = "payer"

(***************************************************************************)
(* C16: a successful update_field with Name, Symbol or Uri replaces that   *)
(* field of the stored record with the given value, the empty string       *)
(* included, and leaves the other two of the three, the update authority,  *)
(* the mint and all additional fields as they were.                        *)
(***************************************************************************)
C16_FixedFieldFrame ==
    (LastOk("update_field") /\ last.field.variant \in {0, 1, 2}) =>
        /\ Decoded(metadata[last.mint].data).ok
        /\ Stored(last.mint) =
              CASE last.field.variant = 0 -> [PreStored EXCEPT !.name = last.value]
                [] last.field.variant = 1 -> [PreStored EXCEPT !.symbol = last.value]
                [] last.field.variant = 2 -> [PreStored EXCEPT !.uri = last.value]

\* the name of a record with an additional field and a symbol was set to
\* the empty string
C16_Witness ==
    /\ LastOk("update_field") /\ last.field.variant = 0 /\ last.value = <<>>
    /\ PreStored.name = <<97>> /\ PreStored.symbol = <<97>>
    /\ Len(PreStored.additional_metadata) >= 1
    /\ Stored(last.mint).name = <<>>
    /\ Stored(last.mint).symbol = <<97>>
    /\ Stored(last.mint).additional_metadata = PreStored.additional_metadata

(***************************************************************************)
(* C17: there is at most one record per mint and initialize succeeds at    *)
(* most once per mint: an initialize succeeds only on an address nothing   *)
(* was created at, an initialize for a mint whose metadata account exists  *)
(* fails and leaves the account (record, size, lamports) as it was, and    *)
(* the contents of an existing account change only through a successful    *)
(* update_field.                                                           *)
(***************************************************************************)
C17_CreateOnce ==
    /\ LastOk("initialize") => last.pre = NoAccount
    /\ (last.op = "initialize" /\ last.pre.owner = "program") =>
            /\ last.result # "Ok"
            /\ metadata[last.mint] = last.pre
            /\ Stored(last.mint) = PreStored
            /\ payer[last.payer] = last.pre_payer
    /\ (last.op # "none" /\ last.pre.owner = "program" /\ ~LastOk("update_field")) =>
            metadata[last.mint].data = last.pre.data
    /\ \A m \in Mints : created[m].done <=> metadata[m].owner = "program"

\* a second initialize, with another name, for a mint that has a record
C17_Witness ==
    /\ last.op = "initialize" /\ last.pre.owner = "program"
    /\ last.result = "AccountAlreadyInUse"
    /\ last.name # PreStored.name
    /\ metadata[last.mint] = last.pre

(***************************************************************************)
(* C18: no update is lost between instructions, whoever pays for them.     *)
(* Every successful update_field leaves stored the record that results     *)
(* from applying its update to the record the previous successful          *)
(* instruction committed (initialize for the first one), so the stored     *)
(* record is the updates applied in commit order to the created record;    *)
(* and it settles the account's lamports from what the previous            *)
(* instruction left there, with its own payer alone.                       *)
(***************************************************************************)
C18_NoLostUpdates ==
    [][(last.op = "none" /\ last'.op = "update_field" /\ last'.result = "Ok") =>
            LET m == last'.mint
                p == last'.payer
            IN /\ created[m].done
               /\ Decoded(metadata'[m].data).ok
               /\ Decoded(metadata'[m].data).val
                    = update(written[m], to_field(last'.field), last'.value)
               /\ metadata'[m].lamports - metadata[m].lamports = payer[p] - payer'[p]
               /\ \A q \in DOMAIN payer : q # p => payer'[q] = payer[q]]_vars

\* payer 2 has just paid for or been refunded by a successful update_field
\* on a record with an additional field, after payer 1 had done the same
\* in an earlier one
C18_Witness ==
    /\ LastOk("update_field") /\ last.payer = 2
    /\ DOMAIN payer = {1, 2}
    /\ payer[2] # last.pre_payer
    /\ payer[1] \notin {69600, 76560}
    /\ Len(Stored(last.mint).additional_metadata) >= 1
    /\ Stored(last.mint) = written[last.mint]

(***************************************************************************)
(* C19: the update authority is fixed by initialize.  No update_field,     *)
(* whatever its field (Key with any key included), value and signer,       *)
(* changes the stored update authority, so in every reachable state a      *)
(* record created with authority A passes the authority checks of          *)
(* update_field for signer A and for no other signer.                      *)
(***************************************************************************)
C19_AuthorityFixed ==
    \A m \in Mints :
        created[m].done =>
            LET given == IF created[m].authority = None THEN ZeroPubkey
                         ELSE Pubkey(created[m].authority[1])
            IN /\ Decoded(metadata[m].data).ok
               /\ Stored(m).update_authority = given
               /\ (last.op = "update_field" /\ last.mint = m) =>
                    /\ PreStored.update_authority = given
                    /\ created[m].authority # None =>
                         (last.result \in {"Ok", "ResultWithNegativeLamports"}
                            <=> Pubkey(last.signer) = given)

\* the authority set an additional field on a record that already had one,
\* and is still the authority
C19_Witness ==
    /\ LastOk("update_field") /\ last.field.variant = 3 /\ last.signer = 1
    /\ created[last.mint].authority = Some(1)
    /\ Len(PreStored.additional_metadata) >= 1
    /\ Stored(last.mint).update_authority = Pubkey(1)

(***************************************************************************)
(* C20: the keys of the additional fields of a stored record are pairwise  *)
(* distinct, and the number of additional fields never decreases: a record *)
(* is created with none, and an instruction leaves at least as many as it  *)
(* found.                                                                  *)
(***************************************************************************)
C20_DistinctKeysNoRemoval ==
    \A m \in Mints :
        created[m].done =>
            LET ps == Stored(m).additional_metadata
            IN /\ Decoded(metadata[m].data).ok
               /\ \A i, j \in 1..Len(ps) : ps[i][1] = ps[j][1] => i = j
               /\ LastOk("initialize") => ps = <<>>
               /\ (last.op # "none" /\ last.mint = m /\ last.pre.owner = "program")
                    => Len(ps) >= Len(PreStored.additional_metadata)

\* a Key update on a record that has both keys replaced a value: two
\* distinct keys before and after
C20_Witness ==
    /\ LastOk("update_field") /\ last.field.variant = 3
    /\ Len(PreStored.additional_metadata) = 2
    /\ Len(Stored(last.mint).additional_metadata) = 2
    /\ Stored(last.mint).additional_metadata # PreStored.additional_metadata
    /\ Stored(last.mint).additional_metadata[1][1]
            # Stored(last.mint).additional_metadata[2][1]

====
